---- MODULE Spec2Model ----
(***************************************************************************)
(* Model of the per-connection bridge of lsp-ws-proxy:                     *)
(*   src/src/main.rs          get_opts_and_commands (startup registry)     *)
(*   src/src/api/proxy.rs     get_command, on_upgrade, connected           *)
(*   src/src/lsp/ext/sqls.rs  SqlsDatabase, create_database_on_init        *)
(***************************************************************************)
EXTENDS Integers, Sequences, FiniteSets, TLC

\* ------------------------------------------------------------------ bounds
\* Number of argv tokens after the first "--" on the command line.
MaxArgs == 3
\* Number of items (text frames, Close, errors) the socket yields on one connection.
MaxClientFrames == 2
\* Number of items the child's stdout reader yields on one connection.
MaxServerFrames == 2
\* Number of timer ticks delivered on one connection.
MaxTicks == 3
\* Number of cleanup calls made on one record.
MaxCleanups == 3

\* ----------------------------------------------------------- Option values
None == [tag |-> "None"]
Some(v) == [tag |-> "Some", val |-> v]
\* An abort of the task (index out of bounds, unwrap on None, unreachable!).
Panic == [tag |-> "Panic"]
IsSome(o) == o.tag = "Some"

\* ------------------------------------------------- main.rs: startup registry
\* args.split(|s| *s == "--"): the groups between separators; a leading,
\* trailing or doubled separator yields an empty group.
RECURSIVE Split(_, _, _)
Split(args, i, cur) ==
  IF i > Len(args) THEN <<cur>>
  ELSE IF args[i] = "--" THEN <<cur>> \o Split(args, i + 1, <<>>)
  ELSE Split(args, i + 1, Append(cur, args[i]))

\* get_opts_and_commands: the commands are the groups after the first one,
\* None when the command line has no "--" at all.
get_opts_and_commands(args) ==
  LET splitted == Split(args, 1, <<>>)
  IN  IF Len(splitted) < 2 THEN None ELSE Some(SubSeq(splitted, 2, Len(splitted)))

\* ------------------------------------------------ proxy.rs: server selection
\* c.iter().find(|v| v[0] == name): v[0] is evaluated for each element in
\* order until the first match; indexing an empty Vec aborts.
RECURSIVE find(_, _, _)
find(c, name, i) ==
  IF i > Len(c) THEN None
  ELSE IF Len(c[i]) = 0 THEN Panic
  ELSE IF c[i][1] = name THEN Some(c[i])
  ELSE find(c, name, i + 1)

\* ctx.commands.as_ref().and_then(|c| c.first())
first(commands) ==
  IF IsSome(commands) /\ Len(commands.val) > 0 THEN Some(commands.val[1]) ELSE None

\* ctx.config.as_ref().map_or(false, |c| c.not_found_error)
not_found_error(config) == IF IsSome(config) THEN config.val.not_found_error ELSE FALSE

get_command_named_first(commands, config, query) ==
  IF IsSome(query)
  THEN LET found == IF IsSome(commands) THEN find(commands.val, query.val, 1) ELSE None
       IN  IF found.tag = "Panic" THEN Panic
           ELSE IF IsSome(found) THEN found
           ELSE IF IsSome(config) /\ IsSome(config.val.servers)
                   /\ query.val \in DOMAIN config.val.servers.val
                THEN Some(config.val.servers.val[query.val])
           ELSE IF not_found_error(config) THEN None
           ELSE first(commands)
  ELSE first(commands)

get_command(commands, config, query) ==
  IF IsSome(query)
  THEN IF IsSome(config) /\ IsSome(config.val.servers)
          /\ query.val \in DOMAIN config.val.servers.val
       THEN Some(config.val.servers.val[query.val])
       ELSE LET found == IF IsSome(commands) THEN find(commands.val, query.val, 1) ELSE None
            IN  IF found.tag = "Panic" THEN Panic
                ELSE IF IsSome(found) THEN found
                ELSE IF not_found_error(config) THEN None
                ELSE first(commands)
  ELSE first(commands)


\* --------------------------------------------- sqls.rs: SqlsDatabase record
\* SqlsDatabase::new: a fresh session id, no created resource.
new(driver, id) ==
  [id |-> id, driver |-> driver,
   created_database |-> None, created_user |-> None, created_password |-> None]

\* format!("lsp_db_{}", &self.id[..8]) and its siblings.
db_name(id) == <<"lsp_db", id>>
user_name(id) == <<"lsp_user", id>>
password(id) == <<"lsp_pass", id>>
\* format!("/tmp/{}", format!("lsp_db_{}.db", &self.id[..8]))
db_path(id) == <<"/tmp/lsp_db.db", id>>

\* Result of an operation on a record: the record and the DBMS / file system
\* as the operation leaves them.
Ok(db, st) == [ok |-> TRUE, db |-> db, dbms |-> st]
Err(db, st) == [ok |-> FALSE, db |-> db, dbms |-> st]

\* Where a cleanup can fail.
CleanupFails == {"none", "connect", "drop_db", "drop_user"}

\* cleanup_mysql_resources / cleanup_postgres_resources: connect as admin,
\* drop the recorded database and clear it, drop the recorded user and clear
\* it; each await returns early with `?`.  (pg_terminate_backend's result is
\* ignored, so the two functions act alike on the record and the DBMS.)
cleanup_sql_resources_keeps_record(db, st, cfail) ==
  IF cfail = "connect" THEN Err(db, st)
  ELSE LET hasdb == IsSome(db.created_database)
           st1 == IF hasdb THEN st \ {db.created_database.val} ELSE st
           hasuser == IsSome(db.created_user)
           st2 == IF hasuser THEN st1 \ {db.created_user.val} ELSE st1
       IN  IF hasdb /\ cfail = "drop_db" THEN Err(db, st)
           ELSE IF hasuser /\ cfail = "drop_user" THEN Err(db, st1)
           ELSE Ok(db, st2)

cleanup_sql_resources(db, st, cfail) ==
  IF cfail = "connect" THEN Err(db, st)
  ELSE LET hasdb == IsSome(db.created_database)
           db1 == IF hasdb THEN [db EXCEPT !.created_database = None] ELSE db
           st1 == IF hasdb THEN st \ {db.created_database.val} ELSE st
           hasuser == IsSome(db.created_user)
           db2 == IF hasuser THEN [db1 EXCEPT !.created_user = None] ELSE db1
           st2 == IF hasuser THEN st1 \ {db.created_user.val} ELSE st1
       IN  IF hasdb /\ cfail = "drop_db" THEN Err(db, st)
           ELSE IF hasuser /\ cfail = "drop_user" THEN Err(db1, st1)
           ELSE Ok(db2, st2)

cleanup_mysql_resources(db, st, cfail) == cleanup_sql_resources(db, st, cfail)
cleanup_postgres_resources(db, st, cfail) == cleanup_sql_resources(db, st, cfail)

\* SqlsDatabase::cleanup.  For sqlite a failed remove_file is only printed
\* and the record is cleared all the same.
cleanup(db, st, cfail) ==
  CASE db.driver = "mysql" -> cleanup_mysql_resources(db, st, cfail)
    [] db.driver = "postgres" -> cleanup_postgres_resources(db, st, cfail)
    [] db.driver = "sqlite" ->
         IF IsSome(db.created_database)
         THEN Ok([db EXCEPT !.created_database = None],
                 IF cfail = "none" THEN st \ {db.created_database.val} ELSE st)
         ELSE Ok(db, st)
    [] OTHER -> Ok(db, st)

\* Where provisioning can fail: <<step, what fails after it>>.
InitFails ==
  {<<"none", "none">>, <<"admin_connect", "none">>,
   <<"create_first", "none">>, <<"create_second", "none">>,
   <<"create_second", "rollback">>, <<"admin_commit", "none">>,
   <<"user_connect", "none">>, <<"user_commit", "none">>,
   <<"init_sql", "none">>, <<"init_sql", "rollback">>, <<"init_sql", "connect">>,
   <<"init_sql", "drop_db">>, <<"init_sql", "drop_user">>,
   <<"init_sql", "remove_file">>}

\* The failure points each driver's init has: postgres has no admin
\* transaction, sqlite only opens the file, runs initSql and commits, and an
\* unsupported driver fails before any step.
InitFailsOf(driver) ==
  CASE driver = "mysql" -> InitFails \ {<<"init_sql", "remove_file">>}
    [] driver = "postgres" ->
         InitFails \ {<<"create_second", "rollback">>, <<"admin_commit", "none">>,
                      <<"init_sql", "remove_file">>}
    [] driver = "sqlite" ->
         {<<"none", "none">>, <<"admin_connect", "none">>, <<"user_commit", "none">>,
          <<"init_sql", "none">>, <<"init_sql", "rollback">>, <<"init_sql", "remove_file">>}
    [] OTHER -> {<<"none", "none">>}

\* The failure points the full bridge is run on: none, one that leaves the
\* created resources behind, one after which init cleans up itself.
CoreFails == {<<"none", "none">>, <<"user_connect", "none">>, <<"init_sql", "none">>}

created(db) ==
  [db EXCEPT !.created_database = Some(db_name(db.id)),
             !.created_user = Some(user_name(db.id)),
             !.created_password = Some(password(db.id))]

\* init_mysql: the admin transaction creates database and user and is rolled
\* back when a statement fails; the record is set after the commit.
init_mysql(db, st, fail) ==
  LET made == st \cup {db_name(db.id), user_name(db.id)}
  IN  CASE fail[1] \in {"admin_connect", "create_first", "create_second", "admin_commit"}
             -> Err(db, st)
        [] fail[1] \in {"user_connect", "user_commit"} -> Err(created(db), made)
        [] fail[1] = "init_sql" ->
             IF fail[2] = "rollback" THEN Err(created(db), made)
             ELSE LET c == cleanup_mysql_resources(created(db), made, fail[2])
                  IN  Err(c.db, c.dbms)
        [] OTHER -> Ok(created(db), made)

init_postgres_no_cleanup(db, st, fail) ==
  LET made == st \cup {db_name(db.id), user_name(db.id)}
  IN  CASE fail[1] \in {"admin_connect", "create_first"} -> Err(db, st)
        [] fail[1] = "create_second" -> Err(db, st \cup {user_name(db.id)})
        [] fail[1] \in {"user_connect", "user_commit", "init_sql"} -> Err(created(db), made)
        [] OTHER -> Ok(created(db), made)

\* init_postgres: CREATE USER then CREATE DATABASE, auto-committed one by
\* one; the record is set only after both succeeded.
init_postgres(db, st, fail) ==
  LET made == st \cup {db_name(db.id), user_name(db.id)}
  IN  CASE fail[1] \in {"admin_connect", "create_first"} -> Err(db, st)
        [] fail[1] = "create_second" -> Err(db, st \cup {user_name(db.id)})
        [] fail[1] \in {"user_connect", "user_commit"} -> Err(created(db), made)
        [] fail[1] = "init_sql" ->
             IF fail[2] = "rollback" THEN Err(created(db), made)
             ELSE LET c == cleanup_postgres_resources(created(db), made, fail[2])
                  IN  Err(c.db, c.dbms)
        [] OTHER -> Ok(created(db), made)

\* init_sqlite: the pool opens the file; the record is set after the commit;
\* on an initSql failure the transaction is rolled back (`?`) and the file is
\* removed (a failed removal is printed).
init_sqlite(db, st, fail) ==
  LET made == st \cup {db_path(db.id)}
  IN  CASE fail[1] = "admin_connect" -> Err(db, st)
        [] fail[1] = "user_commit" -> Err(db, made)
        [] fail[1] = "init_sql" ->
             IF fail[2] = "none" THEN Err(db, made \ {db_path(db.id)}) ELSE Err(db, made)
        [] OTHER -> Ok([db EXCEPT !.created_database = Some(db_path(db.id))], made)

\* SqlsDatabase::init
init(db, st, fail) ==
  CASE db.driver = "mysql" -> init_mysql(db, st, fail)
    [] db.driver = "postgres" -> init_postgres(db, st, fail)
    [] db.driver = "sqlite" -> init_sqlite(db, st, fail)
    [] OTHER -> Err(db, st)


\* ------------------------------------------------------------- LSP messages
\* A parsed lsp::Message: its variant, the uri it carries ("" for none),
\* whether a didSave carries text, and for an initialize request its
\* params.initializationOptions (an Option of a JSON object, a function from
\* its keys).
Msg(kind, uri, text, opts) == [kind |-> kind, uri |-> uri, text |-> text, opts |-> opts]

InitBlock(driver, initSql) ==
  Some([init |-> [driver |-> driver, initSql |-> initSql],
        connectionConfig |-> [alias |-> "client"]])

InitializeOptions ==
  {None,
   Some([connectionConfig |-> [alias |-> "client"]]),
   Some([init |-> [driver |-> "mysql"]]),
   InitBlock("", "CREATE"), InitBlock("mysql", ""),
   InitBlock("mysql", "CREATE"), InitBlock("postgres", "CREATE"),
   InitBlock("sqlite", "CREATE"), InitBlock("oracle", "CREATE"),
   InitBlock("db2", "CREATE")}

ClientMessages ==
  {Msg("Initialize", "", FALSE, o) : o \in InitializeOptions}
  \cup {Msg("Request", u, FALSE, None) : u \in {"source://a", "source://../x"}}
  \cup {Msg("Response", "", FALSE, None), Msg("Notification", "", FALSE, None)}
  \cup {Msg("DidSave", u, t, None) :
          u \in {"source://a", "file:///proj/a", "file://host/a", "file:///"},
          t \in BOOLEAN}

\* The messages the full bridge is run on: an initialize that provisions,
\* a request whose remapping fails, a didSave that is written.
CoreMessages ==
  {Msg("Initialize", "", FALSE, InitBlock("mysql", "CREATE")),
   Msg("Request", "source://../x", FALSE, None),
   Msg("DidSave", "file:///proj/a", TRUE, None)}

\* What the child's stdout reader decodes: a body that parses as an LSP
\* message (with the uri it carries) or one that does not.
ServerTexts ==
  {[parses |-> TRUE, uri |-> u] : u \in {"", "file:///proj/a", "source://../x"}}
  \cup {[parses |-> FALSE, uri |-> ""]}

\* The child output the full bridge is run on: a body whose remapping
\* fails, and one that does not parse.
CoreServerTexts ==
  {[parses |-> TRUE, uri |-> "source://../x"], [parses |-> FALSE, uri |-> ""]}

\* lsp::ext::remap_relative_uri(&mut msg, &ctx.cwd) with cwd = file:///proj/:
\* a source:// uri becomes the file:// uri it resolves to under the root and
\* fails when it resolves outside of it; towards the client a file:// uri
\* under the root becomes the source:// uri relative to it.
remap_relative_uri(uri, from_client) ==
  CASE uri = "source://../x" -> [ok |-> FALSE, uri |-> uri]
    [] uri = "source://a" -> [ok |-> TRUE, uri |-> "file:///proj/a"]
    [] uri = "file:///proj/a" /\ ~from_client -> [ok |-> TRUE, uri |-> "source://a"]
    [] OTHER -> [ok |-> TRUE, uri |-> uri]

\* uri.scheme()
scheme(uri) ==
  CASE uri \in {"source://a", "source://../x"} -> "source"
    [] uri \in {"file:///proj/a", "file://host/a", "file:///"} -> "file"
    [] OTHER -> ""

\* uri.to_file_path(): a file:// uri with a remote host has no local path.
to_file_path(uri) ==
  CASE uri = "file:///proj/a" -> Some("/proj/a")
    [] uri = "file:///" -> Some("/")
    [] OTHER -> None

\* path.parent(): the root has none.
parent(path) == IF path = "/proj/a" THEN Some("/proj") ELSE None

maybe_write_text_document_any_file_uri(msg) ==
  IF msg.kind = "DidSave" /\ msg.text /\ scheme(msg.uri) = "file"
  THEN Some(msg.uri) ELSE None

\* maybe_write_text_document: the path written, None when the message is
\* not a didSave with text and a file:// uri that has a local path with a
\* parent directory.
maybe_write_text_document(msg) ==
  IF msg.kind = "DidSave" /\ msg.text /\ scheme(msg.uri) = "file"
     /\ IsSome(to_file_path(msg.uri)) /\ IsSome(parent(to_file_path(msg.uri).val))
  THEN to_file_path(msg.uri) ELSE None

\* ------------------------------------- sqls.rs: create_database_on_init
\* v.get("init").and_then(|i| i.get(key)).and_then(|s| s.as_str()).unwrap_or("")
init_field(v, key) ==
  IF "init" \in DOMAIN v /\ key \in DOMAIN v.init THEN v.init[key] ELSE ""

\* config.and_then(|c| c.sql.as_ref()).and_then(|sql| sql.get(driver))
sql_config(config, driver) ==
  IF IsSome(config) /\ IsSome(config.val.sql) /\ driver \in DOMAIN config.val.sql.val
  THEN Some(config.val.sql.val[driver]) ELSE None

\* The connectionConfig map built after a successful init.
connection_config_without_created(driver, db, sc) ==
  [k \in {"driver", "host", "port"} |->
     CASE k = "driver" -> driver [] k = "host" -> sc.host [] k = "port" -> sc.port]

connection_config(driver, db, sc) ==
  LET keys == {"driver", "host", "port"}
              \cup (IF IsSome(db.created_password) THEN {"passwd"} ELSE {})
              \cup (IF IsSome(db.created_user) THEN {"user"} ELSE {})
              \cup (IF IsSome(db.created_database) THEN {"dbName"} ELSE {})
              \cup (IF IsSome(sc.proto) THEN {"proto"} ELSE {})
  IN  [k \in keys |->
         CASE k = "driver" -> driver
           [] k = "passwd" -> db.created_password.val
           [] k = "user" -> db.created_user.val
           [] k = "dbName" -> db.created_database.val
           [] k = "proto" -> sc.proto.val
           [] k = "host" -> sc.host
           [] k = "port" -> sc.port]

\* The result of create_database_on_init: Ok(None), Ok(Some(db)) or Err,
\* with the message and the DBMS as the call leaves them.
Provisioned(res, msg, db, st) == [res |-> res, msg |-> msg, db |-> db, dbms |-> st]

create_database_on_init(msg, name, config, id, st, fail) ==
  IF name # "sql" THEN Provisioned("None", msg, None, st)
  ELSE IF msg.kind = "Initialize" /\ IsSome(msg.opts)
  THEN LET v == msg.opts.val
           init_sql_str == init_field(v, "initSql")
           driver == init_field(v, "driver")
           sc == sql_config(config, driver)
       IN  IF init_sql_str = "" \/ driver = "" THEN Provisioned("None", msg, None, st)
           ELSE IF IsSome(sc)
           THEN LET r == init(new(driver, id), st, fail)
                IN  IF ~r.ok THEN Provisioned("Err", msg, None, r.dbms)
                    ELSE Provisioned("Some",
                           [msg EXCEPT !.opts =
                              Some([connectionConfig |->
                                      connection_config(driver, r.db, sc.val)])],
                           Some(r.db), r.dbms)
           ELSE Provisioned("None", msg, None, st)
  ELSE Provisioned("None", msg, None, st)


\* ------------------------------------------------------------------- state
VARIABLES
  commands,        \* ctx.commands: Option<Vec<Vec<String>>>
  config,          \* ctx.config: Option<Config>
  remap,           \* ctx.remap
  sync,            \* ctx.sync
  query,           \* Option<Query>: the `name` query parameter
  pc,              \* "Starting", "Running", "Draining" (after the loop), "Closed"
  outcome,         \* how `connected` ended: "none", "Ok", "Err", "Panic"
  error_logged,    \* on_upgrade logged "connection error"
  reason,          \* why the loop was left: "none", "unhealthy", "done", "eof", "error"
  command,         \* the selected command line
  server,          \* the child process: "none", "running", "killed"
  kills,           \* kill signals sent to the child
  is_alive,        \* pong received since the last ping
  database,        \* Option<SqlsDatabase>
  server_stdin,    \* the socket items written to the child's stdin, in order
  stdin_last,      \* the last text written to the child's stdin
  client_out,      \* frames sent on the socket, in order
  out_last,        \* the last text frame sent on the socket
  n_client,        \* items yielded by the socket stream so far
  n_server,        \* items yielded by the child's stdout reader so far
  ticks,           \* ticks delivered so far
  pong_since_tick, \* a Pong was processed since the last Tick
  dbms,            \* databases, users and sqlite files that exist
  files,           \* paths written by maybe_write_text_document
  next_id,         \* the next session uuid
  provisioned,     \* ids of the records create_database_on_init returned
  cleanups,        \* ids of the records `cleanup` was called on by `connected`
  fault,           \* where the DBMS failed the last provisioning: <<step, after>>
  logged,          \* what the loop logged without acting: "close", "ws_error", "codec_error"
  due,             \* timer periods elapsed whose Tick the loop has not taken yet
  pong_queue,      \* Pong frames in the socket stream the loop has not taken yet
  answered,        \* PINGs the client has answered with a Pong
  stdin_pipe       \* messages in the child's stdin pipe the child has not read yet

ctx_vars == <<commands, config, remap, sync, query>>
io_vars == <<server_stdin, stdin_last, client_out, out_last, n_client, n_server, ticks>>
db_vars == <<database, dbms, files, next_id, provisioned, cleanups, fault>>
env_vars == <<due, pong_queue, answered, stdin_pipe>>
vars == <<commands, config, remap, sync, query, pc, outcome, error_logged, reason,
          command, server, kills, is_alive, database, server_stdin, stdin_last,
          client_out, out_last, n_client, n_server, ticks, pong_since_tick,
          dbms, files, next_id, provisioned, cleanups, fault, logged,
          due, pong_queue, answered, stdin_pipe>>

\* -------------------------------------------------------------- contexts
SqlConfig(proto) ==
  [host |-> "127.0.0.1", port |-> 3306, admin_username |-> "root",
   admin_password |-> "root", proto |-> proto]

\* config.sql: mysql and oracle with a proto, postgres and sqlite without.
SqlConfigs ==
  [d \in {"mysql", "postgres", "sqlite", "oracle"} |->
     SqlConfig(IF d \in {"mysql", "oracle"} THEN Some("tcp") ELSE None)]

Config(nfe, servers, sql) == [not_found_error |-> nfe, servers |-> servers, sql |-> sql]

\* The argv tokens after the program name: none at all, or "--" followed by
\* up to MaxArgs tokens.
Tokens == {"--", "ra", "sql"}
RECURSIVE SeqsUpTo(_, _)
SeqsUpTo(S, n) ==
  IF n = 0 THEN {<<>>}
  ELSE LET shorter == SeqsUpTo(S, n - 1)
       IN  shorter \cup {Append(q, x) : q \in {r \in shorter : Len(r) = n - 1}, x \in S}
CommandLines == {<<"lsp-ws-proxy">>}
                \cup {<<"lsp-ws-proxy", "--">> \o t : t \in SeqsUpTo(Tokens, MaxArgs)}

\* config.servers of the config file.
ServersSet ==
  {None, Some([n \in {} |-> <<>>]), Some([n \in {"ra"} |-> <<"named-ra">>]),
   Some([n \in {"ra"} |-> <<>>]),
   Some([n \in {"ra", "sql"} |-> IF n = "ra" THEN <<"named-ra">> ELSE <<"sqls", "-v">>])}

Queries == {None, Some("ra"), Some("sql"), Some("zz")}

NoText == [raw |-> FALSE, msg |-> Msg("none", "", FALSE, None)]
NoFrame == [type |-> "none"]

InitConnection ==
  /\ pc = "Starting" /\ outcome = "none" /\ error_logged = FALSE /\ reason = "none"
  /\ command = <<>> /\ server = "none" /\ kills = 0
  /\ is_alive = TRUE /\ database = None
  /\ server_stdin = <<>> /\ stdin_last = NoText
  /\ client_out = <<>> /\ out_last = NoFrame
  /\ n_client = 0 /\ n_server = 0 /\ ticks = 0
  /\ pong_since_tick = FALSE
  /\ dbms = {} /\ files = {} /\ next_id = 1 /\ provisioned = {} /\ cleanups = <<>>
  /\ fault = <<"none", "none">>
  /\ logged = {}
  /\ due = 0 /\ pong_queue = 0 /\ answered = 0 /\ stdin_pipe = 0

\* Every registry the startup code can build, every name, every strict flag.
InitSelect ==
  /\ \E a \in CommandLines : commands = get_opts_and_commands(a)
  /\ config \in {None} \cup {Some(Config(nfe, s, None)) : nfe \in BOOLEAN, s \in ServersSet}
  /\ query \in Queries
  /\ remap = FALSE /\ sync = FALSE
  /\ InitConnection

\* The contexts the bridge is run in.
InitContext(S) ==
  /\ \E s \in S :
       /\ commands = get_opts_and_commands(s.args)
       /\ config = s.config
       /\ query = s.query
  /\ remap \in BOOLEAN /\ sync \in BOOLEAN
  /\ InitConnection

\* A startup command with the SQL config, an unknown name under
\* not_found_error, no server at all, and an empty startup group.
Scenarios ==
  {[args |-> <<"lsp-ws-proxy", "--", "ra">>,
    config |-> Some(Config(FALSE, None, Some(SqlConfigs))), query |-> None],
   [args |-> <<"lsp-ws-proxy", "--", "ra">>,
    config |-> Some(Config(TRUE, None, None)), query |-> Some("zz")],
   [args |-> <<"lsp-ws-proxy">>, config |-> None, query |-> None],
   [args |-> <<"lsp-ws-proxy", "--">>, config |-> None, query |-> None]}

\* A startup command without a config, with a config without `sql`, with
\* the SQL config, and a named server `sql` with the SQL config.
TransformScenarios ==
  {[args |-> <<"lsp-ws-proxy", "--", "ra">>, config |-> None, query |-> None],
   [args |-> <<"lsp-ws-proxy", "--", "ra">>,
    config |-> Some(Config(FALSE, None, None)), query |-> None],
   [args |-> <<"lsp-ws-proxy", "--", "ra">>,
    config |-> Some(Config(FALSE, None, Some(SqlConfigs))), query |-> None],
   [args |-> <<"lsp-ws-proxy">>,
    config |-> Some(Config(TRUE, Some([n \in {"sql"} |-> <<"sqls", "-v">>]), Some(SqlConfigs))),
    query |-> Some("sql")]}

Init == InitContext(Scenarios)

InitTransform == InitContext(TransformScenarios)

\* ---------------------------------------------------- proxy.rs: connected
\* Command::kill_on_drop(true): dropping the child handle kills the child.
kill_on_drop_disabled(s) == s

kill_on_drop(s) == IF s = "running" THEN "killed" ELSE s

\* on_upgrade: `if let Err(err) = connected(..).await { tracing::error!(..) }`
on_upgrade_silent(res) == FALSE

on_upgrade_logs(res) == res = "Err"

\* `connected` returns with `res` (a `?` on an error, or the final Ok(())):
\* its locals are dropped, the child handle among them, and on_upgrade logs
\* an error result.
Return(res) ==
  /\ pc' = "Closed"
  /\ outcome' = res
  /\ error_logged' = on_upgrade_logs(res)
  /\ server' = kill_on_drop(server)
  /\ kills' = kills + (IF kill_on_drop(server) # server THEN 1 ELSE 0)

\* The handler is done and the loop selects again.
Continue == UNCHANGED <<pc, outcome, error_logged, reason, server, kills>>

\* `break`: the loop is left for the cleanup after it.
BreakKeepsRunning(why) ==
  /\ reason' = why
  /\ UNCHANGED <<pc, outcome, error_logged, server, kills>>

Break(why) ==
  /\ pc' = "Draining"
  /\ reason' = why
  /\ UNCHANGED <<outcome, error_logged, server, kills>>

\* A `?` inside the loop returns the error.
FailIgnored ==
  /\ reason' = "error"
  /\ UNCHANGED <<pc, outcome, error_logged, server, kills>>

Fail == reason' = "error" /\ Return("Err")

\* get_command(..).ok_or_else(..)?  fails: no child is spawned.
ConnectNoCommand ==
  /\ pc = "Starting"
  /\ get_command(commands, config, query) = None
  /\ pc' = "Closed" /\ outcome' = "Err" /\ error_logged' = on_upgrade_logs("Err")
  /\ UNCHANGED <<ctx_vars, env_vars, logged, reason, command, server, kills, is_alive, pong_since_tick,
                 io_vars, db_vars>>

\* v[0] in get_command or command[0] in connected indexes an empty Vec: the
\* task aborts before anything is spawned.
ConnectAbort ==
  /\ pc = "Starting"
  /\ LET sel == get_command(commands, config, query)
     IN  sel = Panic \/ (IsSome(sel) /\ Len(sel.val) = 0)
  /\ pc' = "Closed" /\ outcome' = "Panic"
  /\ UNCHANGED <<ctx_vars, env_vars, logged, error_logged, reason, command, server, kills, is_alive,
                 pong_since_tick, io_vars, db_vars>>

\* Command::new(&command[0])...spawn()?  fails.
ConnectSpawnFailed ==
  /\ pc = "Starting"
  /\ LET sel == get_command(commands, config, query)
     IN  /\ IsSome(sel) /\ Len(sel.val) > 0
         /\ command' = sel.val
  /\ pc' = "Closed" /\ outcome' = "Err" /\ error_logged' = on_upgrade_logs("Err")
  /\ UNCHANGED <<ctx_vars, env_vars, logged, reason, server, kills, is_alive, pong_since_tick,
                 io_vars, db_vars>>

\* The child is spawned and the loop is entered with is_alive = true and
\* database = None.
ConnectSpawned ==
  /\ pc = "Starting"
  /\ LET sel == get_command(commands, config, query)
     IN  /\ IsSome(sel) /\ Len(sel.val) > 0
         /\ command' = sel.val
  /\ pc' = "Running" /\ server' = "running"
  /\ is_alive' = TRUE /\ database' = None
  /\ UNCHANGED <<ctx_vars, env_vars, logged, outcome, error_logged, reason, kills, pong_since_tick,
                 io_vars, dbms, files, next_id, provisioned, cleanups, fault>>

\* server_send.send(text): the item's text is appended to the child's stdin.
SendToServerUnordered(stdin, seq) == <<seq>> \o stdin

SendToServer(stdin, seq) == Append(stdin, seq)

\* client_send.send(frame): the frame goes out on the socket.
SendToClientUnordered(out, frame) == <<frame>> \o out

SendToClient(out, frame) == Append(out, frame)

Ping == [type |-> "ping", payload |-> <<>>]
Close == [type |-> "close"]
Text(seq) == [type |-> "text", seq |-> seq]

\* The name `connected` passes to create_database_on_init.
provision_name == "sql"

\* Some(Ok(Message::Message(msg))): remap, write on save, provision, forward.
\* M: the messages the socket can yield, F: where provisioning can fail.
RecvMessageFrom(M, F) ==
  /\ pc = "Running" /\ n_client < MaxClientFrames
  /\ n_client' = n_client + 1
  /\ \E m \in M :
       LET r == IF remap THEN remap_relative_uri(m.uri, TRUE) ELSE [ok |-> TRUE, uri |-> m.uri]
           m1 == [m EXCEPT !.uri = r.uri]
           w == IF sync THEN maybe_write_text_document(m1) ELSE None
           NoFail == <<"none", "none">>
           attempted ==
             create_database_on_init(m1, provision_name, config, next_id, dbms, NoFail).res # "None"
           driver == IF attempted THEN init_field(m1.opts.val, "driver") ELSE ""
       IN  IF ~r.ok
           THEN Fail /\ UNCHANGED <<database, dbms, files, next_id, provisioned, fault,
                                    server_stdin, stdin_last>>
           ELSE \E io_ok \in (IF IsSome(w) THEN BOOLEAN ELSE {TRUE}),
                   fail \in (IF attempted THEN F \cap InitFailsOf(driver) ELSE {NoFail}),
                   send_ok \in BOOLEAN :
                  LET p == create_database_on_init(m1, provision_name, config,
                                                   next_id, dbms, fail)
                  IN  IF ~io_ok
                      THEN Fail /\ UNCHANGED <<database, dbms, files, next_id, provisioned,
                                               fault, server_stdin, stdin_last>>
                      ELSE /\ files' = IF IsSome(w) THEN files \cup {w.val} ELSE files
                           /\ dbms' = p.dbms
                           /\ fault' = IF attempted THEN fail ELSE fault
                           /\ next_id' = IF p.res = "None" THEN next_id ELSE next_id + 1
                           /\ IF p.res = "Err"
                              THEN Fail /\ UNCHANGED <<database, provisioned,
                                                       server_stdin, stdin_last>>
                              ELSE /\ database' = p.db
                                   /\ provisioned' = IF p.res = "Some"
                                                     THEN provisioned \cup {p.db.val.id}
                                                     ELSE provisioned
                                   /\ IF send_ok
                                      THEN /\ server_stdin' =
                                                SendToServer(server_stdin, n_client + 1)
                                           /\ stdin_last' = [raw |-> FALSE, msg |-> p.msg]
                                           /\ Continue
                                      ELSE Fail /\ UNCHANGED <<server_stdin, stdin_last>>
  /\ UNCHANGED <<ctx_vars, env_vars, logged, command, is_alive, pong_since_tick, client_out, out_last,
                 n_server, ticks, cleanups>>

RecvMessage == RecvMessageFrom(CoreMessages, CoreFails)

RecvAnyMessage == RecvMessageFrom(ClientMessages, InitFails)

\* server_send.send(text) of Message::Invalid(text): the text as received,
\* not parsed and not serialized again.
forward_invalid_reserialized(msg) == [raw |-> FALSE, msg |-> msg]

forward_invalid(msg) == [raw |-> TRUE, msg |-> msg]

\* The handler of Some(Ok(Message::Invalid(text))): forwarded as is.
OnInvalid ==
  /\ pc = "Running" /\ n_client < MaxClientFrames
  /\ n_client' = n_client + 1
  /\ \E send_ok \in BOOLEAN :
       IF send_ok
       THEN /\ server_stdin' = SendToServer(server_stdin, n_client + 1)
            /\ stdin_last' = forward_invalid(Msg("Invalid", "", FALSE, None))
            /\ Continue
       ELSE Fail /\ UNCHANGED <<server_stdin, stdin_last>>
  /\ UNCHANGED <<ctx_vars, logged, command, is_alive, pong_since_tick, client_out, out_last,
                 n_server, ticks, db_vars>>

\* Some(Ok(Message::Invalid(text))), the child's pipe left out: the send
\* never waits.
RecvInvalid == OnInvalid /\ UNCHANGED env_vars

\* Some(Ok(Message::Close)): logged only.
RecvCloseBreaks ==
  /\ pc = "Running" /\ n_client < MaxClientFrames
  /\ n_client' = n_client + 1
  /\ logged' = logged \cup {"close"}
  /\ Break("done")
  /\ UNCHANGED <<ctx_vars, env_vars, command, is_alive, pong_since_tick, server_stdin,
                 stdin_last, client_out, out_last, n_server, ticks, db_vars>>

RecvClose ==
  /\ pc = "Running" /\ n_client < MaxClientFrames
  /\ n_client' = n_client + 1
  /\ logged' = logged \cup {"close"}
  /\ Continue
  /\ UNCHANGED <<ctx_vars, env_vars, command, is_alive, pong_since_tick, server_stdin, stdin_last,
                 client_out, out_last, n_server, ticks, db_vars>>

\* stream::unfold(interval, ..): the closure returns Some((Ok(Tick), interval))
\* every time, so the timer stream has a next item after any number of Ticks.
ticks_next_once(n) == IF n >= 1 THEN None ELSE Some("Tick")

ticks_next(n) == Some("Tick")

\* client_recv.filter_map(..).chain(stream::once(Done)): the socket's items,
\* then Done once, then the end of the stream.
chain_next(done_taken) == IF done_taken THEN None ELSE Some("item")

\* stream::select(a, b) ends when both streams have ended.
select_next(a, b) == IF IsSome(a) THEN a ELSE b

\* client_recv.next() of the merged stream in the current state.
client_recv_next == select_next(chain_next(reason = "done"), ticks_next(ticks))

\* None from the merged stream: unreachable!("should never yield None").
RecvNone ==
  /\ pc = "Running"
  /\ client_recv_next = None
  /\ pc' = "Closed" /\ outcome' = "Panic"
  /\ server' = kill_on_drop(server)
  /\ kills' = kills + (IF kill_on_drop(server) # server THEN 1 ELSE 0)
  /\ UNCHANGED <<ctx_vars, env_vars, logged, error_logged, reason, command, is_alive,
                 pong_since_tick, io_vars, db_vars>>

\* `if !is_alive { break }`: no pong since the last ping.
unhealthy_never(alive) == FALSE

unhealthy(alive) == ~alive

\* The handler of Some(Ok(Message::Tick)): terminate an unhealthy
\* connection, else ping.
OnTick ==
  /\ pc = "Running" /\ ticks < MaxTicks
  /\ IsSome(ticks_next(ticks))
  /\ ticks' = ticks + 1
  /\ pong_since_tick' = FALSE
  /\ IF unhealthy(is_alive)
     THEN Break("unhealthy") /\ UNCHANGED <<is_alive, client_out>>
     ELSE /\ is_alive' = FALSE
          /\ \E send_ok \in BOOLEAN :
               IF send_ok
               THEN client_out' = SendToClient(client_out, Ping) /\ Continue
               ELSE Fail /\ UNCHANGED client_out
  /\ UNCHANGED <<ctx_vars, logged, command, server_stdin, stdin_last, out_last, n_client,
                 n_server, db_vars>>

\* Some(Ok(Message::Tick)), the timer left out: a Tick at any time.
Tick == OnTick /\ UNCHANGED env_vars

\* The handler of Some(Ok(Message::Pong)): mark the connection alive.
OnPong ==
  /\ pc = "Running"
  /\ is_alive' = TRUE
  /\ pong_since_tick' = TRUE
  /\ Continue
  /\ UNCHANGED <<ctx_vars, logged, command, io_vars, db_vars>>

\* Some(Ok(Message::Pong)), the client left out: a Pong at any time.
RecvPong == OnPong /\ UNCHANGED env_vars

\* Some(Ok(Message::Done)): the socket stream is exhausted.
RecvDone ==
  /\ pc = "Running"
  /\ Break("done")
  /\ UNCHANGED <<ctx_vars, env_vars, logged, command, is_alive, pong_since_tick, io_vars, db_vars>>

\* Some(Err(err)) from the socket: logged only.
RecvErrorFails ==
  /\ pc = "Running" /\ n_client < MaxClientFrames
  /\ n_client' = n_client + 1
  /\ logged' = logged \cup {"ws_error"}
  /\ Fail
  /\ UNCHANGED <<ctx_vars, env_vars, command, is_alive, pong_since_tick, server_stdin,
                 stdin_last, client_out, out_last, n_server, ticks, db_vars>>

RecvError ==
  /\ pc = "Running" /\ n_client < MaxClientFrames
  /\ n_client' = n_client + 1
  /\ logged' = logged \cup {"ws_error"}
  /\ Continue
  /\ UNCHANGED <<ctx_vars, env_vars, command, is_alive, pong_since_tick, server_stdin, stdin_last,
                 client_out, out_last, n_server, ticks, db_vars>>

\* `if ctx.remap { if let Ok(mut msg) = lsp::Message::from_str(&text) {..} }`:
\* whether the child's text is parsed, remapped and serialized again.
reserialized_whenever_parsed(flag, t) == t.parses

reserialized(flag, t) == flag /\ t.parses

\* Some(Ok(text)) from the child's stdout: remap when parseable, forward.
\* T: the bodies the reader can decode.
ServerTextFrom(T) ==
  /\ pc = "Running" /\ n_server < MaxServerFrames
  /\ n_server' = n_server + 1
  /\ \E t \in T, send_ok \in BOOLEAN :
       LET parsed == reserialized(remap, t)
           r == IF parsed THEN remap_relative_uri(t.uri, FALSE) ELSE [ok |-> TRUE, uri |-> t.uri]
       IN  IF r.ok /\ send_ok
           THEN /\ client_out' = SendToClient(client_out, Text(n_server + 1))
                /\ out_last' = [type |-> "text", reserialized |-> parsed,
                                parses |-> t.parses, uri |-> r.uri]
                /\ Continue
           ELSE Fail /\ UNCHANGED <<client_out, out_last>>
  /\ UNCHANGED <<ctx_vars, env_vars, logged, command, is_alive, pong_since_tick, server_stdin, stdin_last,
                 n_client, ticks, db_vars>>

ServerText == ServerTextFrom(CoreServerTexts)

ServerAnyText == ServerTextFrom(ServerTexts)

\* Some(Err(err)) from the child's stdout: logged only.
ServerCodecErrorFails ==
  /\ pc = "Running" /\ n_server < MaxServerFrames
  /\ n_server' = n_server + 1
  /\ logged' = logged \cup {"codec_error"}
  /\ Fail
  /\ UNCHANGED <<ctx_vars, env_vars, command, is_alive, pong_since_tick, server_stdin,
                 stdin_last, client_out, out_last, n_client, ticks, db_vars>>

ServerCodecErrorBreaks ==
  /\ pc = "Running" /\ n_server < MaxServerFrames
  /\ n_server' = n_server + 1
  /\ logged' = logged \cup {"codec_error"}
  /\ Break("error")
  /\ UNCHANGED <<ctx_vars, env_vars, command, is_alive, pong_since_tick, server_stdin,
                 stdin_last, client_out, out_last, n_client, ticks, db_vars>>

ServerCodecError ==
  /\ pc = "Running" /\ n_server < MaxServerFrames
  /\ n_server' = n_server + 1
  /\ logged' = logged \cup {"codec_error"}
  /\ Continue
  /\ UNCHANGED <<ctx_vars, env_vars, command, is_alive, pong_since_tick, server_stdin, stdin_last,
                 client_out, out_last, n_client, ticks, db_vars>>

\* None from the child's stdout: send Close to the client and leave the loop.
ServerExited ==
  /\ pc = "Running"
  /\ \E send_ok \in BOOLEAN :
       IF send_ok
       THEN client_out' = SendToClient(client_out, Close) /\ Break("eof")
       ELSE Fail /\ UNCHANGED client_out
  /\ UNCHANGED <<ctx_vars, env_vars, logged, command, is_alive, pong_since_tick, server_stdin, stdin_last,
                 out_last, n_client, n_server, ticks, db_vars>>

\* After the loop: `if let Some(mut database) = database { cleanup().await? }`
\* and Ok(()).
Cleanup ==
  /\ pc = "Draining"
  /\ IF IsSome(database)
     THEN \E cfail \in CleanupFails :
            LET c == cleanup(database.val, dbms, cfail)
            IN  /\ cleanups' = Append(cleanups, database.val.id)
                /\ database' = Some(c.db)
                /\ dbms' = c.dbms
                /\ Return(IF c.ok THEN "Ok" ELSE "Err")
     ELSE Return("Ok") /\ UNCHANGED <<cleanups, database, dbms>>
  /\ UNCHANGED <<ctx_vars, env_vars, logged, reason, command, is_alive, pong_since_tick, io_vars,
                 files, next_id, provisioned, fault>>

Next ==
  \/ ConnectNoCommand \/ ConnectAbort \/ ConnectSpawnFailed \/ ConnectSpawned
  \/ RecvMessage \/ RecvInvalid \/ RecvClose \/ Tick \/ RecvPong \/ RecvDone \/ RecvError
  \/ ServerText \/ ServerCodecError \/ ServerExited
  \/ Cleanup

Spec == Init /\ [][Next]_vars

\* Selection alone: every registry, name and flag, up to the spawn.
NextSelect == ConnectNoCommand \/ ConnectAbort \/ ConnectSpawnFailed \/ ConnectSpawned

SpecSelect == InitSelect /\ [][NextSelect]_vars

\* The message transforms alone, without heartbeat: every client message,
\* every failure point of provisioning, every child output.
NextTransform ==
  \/ ConnectSpawnFailed \/ ConnectSpawned
  \/ RecvAnyMessage \/ RecvInvalid \/ RecvDone
  \/ ServerAnyText
  \/ Cleanup

SpecTransform == InitTransform /\ [][NextTransform]_vars

\* ------------------- proxy.rs: the loop with its timer and the child's pipe
\* The frames the pipe to the child's stdin holds before a write waits.
PipeCap == 1

\* server_send.send(text).await with room in the pipe: the handler of an
\* Invalid text completes at once.
WriteInvalid ==
  /\ stdin_pipe < PipeCap
  /\ OnInvalid
  /\ stdin_pipe' = IF pc' = "Running" THEN stdin_pipe + 1 ELSE stdin_pipe
  /\ UNCHANGED <<due, pong_queue, answered>>

\* server_send.send(text).await with the pipe full: the send is pending and
\* the handler, and with it the loop, waits inside the select arm.
SendBlocks ==
  /\ pc = "Running" /\ n_client < MaxClientFrames
  /\ stdin_pipe >= PipeCap
  /\ n_client' = n_client + 1
  /\ pc' = "Sending"
  /\ UNCHANGED <<ctx_vars, logged, outcome, error_logged, reason, command, server, kills,
                 is_alive, pong_since_tick, server_stdin, stdin_last, client_out, out_last,
                 n_server, ticks, db_vars, env_vars>>

\* The pending send completes once the pipe has room again, or with an
\* error, and the loop selects again.
SendCompletes ==
  /\ pc = "Sending" /\ stdin_pipe < PipeCap
  /\ \E send_ok \in BOOLEAN :
       IF send_ok
       THEN /\ server_stdin' = SendToServer(server_stdin, n_client)
            /\ stdin_last' = forward_invalid(Msg("Invalid", "", FALSE, None))
            /\ stdin_pipe' = stdin_pipe + 1
            /\ pc' = "Running"
            /\ UNCHANGED <<outcome, error_logged, reason, server, kills>>
       ELSE Fail /\ UNCHANGED <<server_stdin, stdin_last, stdin_pipe>>
  /\ UNCHANGED <<ctx_vars, logged, command, is_alive, pong_since_tick, client_out, out_last,
                 n_client, n_server, ticks, db_vars, due, pong_queue, answered>>

\* The child reads one frame from its stdin, when it chooses to.
ChildReads ==
  /\ server = "running" /\ stdin_pipe > 0
  /\ stdin_pipe' = stdin_pipe - 1
  /\ UNCHANGED <<ctx_vars, logged, pc, outcome, error_logged, reason, command, server, kills,
                 is_alive, pong_since_tick, io_vars, db_vars, due, pong_queue, answered>>

\* tokio::time::interval(30s) under stream::unfold: a period elapses and one
\* more Tick is due.  The interval keeps its schedule (the default
\* MissedTickBehavior::Burst), so periods that elapse while a handler holds
\* the loop leave several Ticks due, delivered back to back.  A loop that
\* waits at the select takes what is ready before a period elapses.  With
\* `prompt`, the client has answered every PING it was sent before the
\* period ends.
TimerFires(prompt) ==
  /\ pc \in {"Running", "Sending"} /\ ticks + due < MaxTicks
  /\ pc = "Running" => (due = 0 /\ pong_queue = 0)
  /\ prompt => answered = Cardinality({i \in 1..Len(client_out) : client_out[i] = Ping})
  /\ due' = due + 1
  /\ UNCHANGED <<ctx_vars, logged, pc, outcome, error_logged, reason, command, server, kills,
                 is_alive, pong_since_tick, io_vars, db_vars, pong_queue, answered, stdin_pipe>>

\* The client answers a PING: its Pong waits on the socket.
ClientPong ==
  /\ pc \in {"Running", "Sending"}
  /\ answered < Cardinality({i \in 1..Len(client_out) : client_out[i] = Ping})
  /\ answered' = answered + 1
  /\ pong_queue' = pong_queue + 1
  /\ UNCHANGED <<ctx_vars, logged, pc, outcome, error_logged, reason, command, server, kills,
                 is_alive, pong_since_tick, io_vars, db_vars, due, stdin_pipe>>

\* stream::select(client_recv, ticks) yields a due Tick.  Which of two ready
\* streams it yields first alternates with every poll, so either can come
\* first.
TickDue ==
  /\ due > 0
  /\ due' = due - 1
  /\ OnTick
  /\ UNCHANGED <<pong_queue, answered, stdin_pipe>>

\* stream::select(client_recv, ticks) yields a Pong waiting on the socket.
RecvQueuedPong ==
  /\ pong_queue > 0
  /\ pong_queue' = pong_queue - 1
  /\ OnPong
  /\ UNCHANGED <<due, answered, stdin_pipe>>

HeartbeatScenarios ==
  {[args |-> <<"lsp-ws-proxy", "--", "ra">>,
    config |-> Some(Config(FALSE, None, Some(SqlConfigs))), query |-> None]}

InitHeartbeat == InitContext(HeartbeatScenarios)

\* The loop with its timer, a child that reads when it chooses to, and a
\* client that answers every PING within the period.
NextHeartbeat ==
  \/ ConnectSpawnFailed \/ ConnectSpawned
  \/ TimerFires(TRUE) \/ ClientPong \/ TickDue \/ RecvQueuedPong
  \/ WriteInvalid \/ SendBlocks \/ SendCompletes \/ ChildReads
  \/ RecvDone
  \/ Cleanup

SpecHeartbeat == InitHeartbeat /\ [][NextHeartbeat]_vars

\* The loop with its timer, a client that has fallen silent (no frame
\* answers a PING, the socket stays open) and a child that reads its stdin
\* when it chooses to, or never.
InitLive == InitContext(HeartbeatScenarios)

NextLive ==
  \/ ConnectSpawnFailed \/ ConnectSpawned
  \/ TimerFires(FALSE) \/ TickDue
  \/ WriteInvalid \/ SendBlocks \/ SendCompletes \/ ChildReads
  \/ Cleanup

\* The runtime schedules the bridge task and the timer fairly: a step of
\* the bridge that stays possible is taken, and so is the next timer period.
\* Nothing obliges the child to read, nor the client to send.
BridgeStep ==
  \/ ConnectSpawnFailed \/ ConnectSpawned \/ TickDue \/ SendCompletes \/ Cleanup

SpecLive ==
  /\ InitLive /\ [][NextLive]_vars
  /\ WF_vars(BridgeStep) /\ WF_vars(TimerFires(FALSE))

\* ------------------------------------------- sqls.rs: the record on its own
\* SqlsDatabase::init and SqlsDatabase::cleanup applied to one record, for
\* every driver and every failure point, outside of any connection.
RecordDrivers == {"mysql", "postgres", "sqlite", "oracle"}

InitRecord ==
  /\ commands = None /\ config = None /\ query = None
  /\ remap = FALSE /\ sync = FALSE
  /\ InitConnection

\* SqlsDatabase::new(driver, ..) followed by db.init(init_sql): `database`
\* holds the record as init leaves it, also when init returns an error.
RecordInit ==
  /\ database = None
  /\ \E driver \in RecordDrivers :
       \E fail \in InitFailsOf(driver) :
         LET r == init(new(driver, next_id), dbms, fail)
         IN  /\ database' = Some(r.db)
             /\ dbms' = r.dbms
             /\ fault' = fail
             /\ provisioned' = IF r.ok THEN provisioned \cup {next_id} ELSE provisioned
  /\ next_id' = next_id + 1
  /\ UNCHANGED <<ctx_vars, env_vars, logged, pc, outcome, error_logged, reason, command, server, kills,
                 is_alive, pong_since_tick, io_vars, files, cleanups>>

\* db.cleanup() on the record, as often as the caller likes.
RecordCleanup ==
  /\ IsSome(database) /\ Len(cleanups) < MaxCleanups
  /\ \E cfail \in CleanupFails :
       LET c == cleanup(database.val, dbms, cfail)
       IN  /\ database' = Some(c.db)
           /\ dbms' = c.dbms
  /\ cleanups' = Append(cleanups, database.val.id)
  /\ UNCHANGED <<ctx_vars, env_vars, logged, pc, outcome, error_logged, reason, command, server, kills,
                 is_alive, pong_since_tick, io_vars, files, next_id, provisioned, fault>>

NextRecord == RecordInit \/ RecordCleanup

SpecRecord == InitRecord /\ [][NextRecord]_vars

TypeOK ==
  /\ pc \in {"Starting", "Running", "Sending", "Draining", "Closed"}
  /\ outcome \in {"none", "Ok", "Err", "Panic"}
  /\ server \in {"none", "running", "killed"}
  /\ is_alive \in BOOLEAN


\* ================================================================= claims

RECURSIVE Count(_, _)
Count(q, x) ==
  IF q = <<>> THEN 0 ELSE (IF Head(q) = x THEN 1 ELSE 0) + Count(Tail(q), x)

\* C1: whenever a connection that holds a provisioned-database record is
\* Closed, whatever ended it, cleanup was invoked on that record exactly once.
C1_CleanupOnEveryExit ==
  (pc = "Closed" /\ IsSome(database)) => Count(cleanups, database.val.id) = 1

\* C2: a spawned child gets exactly one kill signal, at the moment the
\* bridge task ends, whatever ends it; it is running as long as the bridge
\* runs and is not running once the connection is Closed.
C2_ChildKilledExactlyOnce ==
  /\ pc \in {"Running", "Draining"} => (server = "running" /\ kills = 0)
  /\ pc = "Closed" => server \in {"none", "killed"}
  /\ server = "killed" => kills = 1
  /\ server = "none" => kills = 0

C2_Witness ==
  pc = "Closed" /\ reason = "error" /\ outcome = "Err" /\ server = "killed" /\ kills = 1

\* C3: a Tick processed in Running leaves the loop as unhealthy if and only
\* if it is not the first Tick and no Pong was processed since the previous
\* one; otherwise it clears the liveness bit and sends exactly one empty
\* PING (or ends the connection with the send error).  So the first Tick
\* never terminates and a client that never answers is terminated at the
\* second Tick.
C3_HeartbeatStep ==
  LET silent == ticks >= 1 /\ ~pong_since_tick
  IN  (pc = "Running" /\ ticks' = ticks + 1) =>
        /\ (pc' = "Draining" /\ reason' = "unhealthy") <=> silent
        /\ silent => client_out' = client_out
        /\ ~silent =>
             /\ is_alive' = FALSE
             /\ \/ pc' = "Running" /\ client_out' = Append(client_out, Ping)
                \/ pc' = "Closed" /\ outcome' = "Err" /\ client_out' = client_out

C3_Heartbeat == [][C3_HeartbeatStep]_vars

C3_Witness ==
  pc = "Draining" /\ reason = "unhealthy" /\ ticks = 2 /\ client_out = <<Ping>>

\* C4: the socket items written to the child's stdin are written in the
\* order the socket yielded them, each at most once.
C4_ClientToChildFifo ==
  /\ \A i, j \in DOMAIN server_stdin : i < j => server_stdin[i] < server_stdin[j]
  /\ \A i \in DOMAIN server_stdin : server_stdin[i] \in 1..n_client

C4_Witness ==
  Len(server_stdin) >= 2 /\ stdin_last.raw /\ ticks > 0 /\ n_server > 0

TextSeqs(out) == SelectSeq(out, LAMBDA f : f.type = "text")

\* C5: the child messages sent to the client as text frames are sent in the
\* order they were decoded, each at most once, however Ticks, Pongs and
\* client events interleave.
C5_ChildToClientFifo ==
  LET texts == TextSeqs(client_out)
  IN  /\ \A i, j \in DOMAIN texts : i < j => texts[i].seq < texts[j].seq
      /\ \A i \in DOMAIN texts : texts[i].seq \in 1..n_server

C5_Witness ==
  /\ Len(client_out) >= 3
  /\ client_out[1].type = "text" /\ client_out[2].type = "ping"
  /\ client_out[3].type = "text"
  /\ n_client > 0

\* The 5-step selector of the specification, on a named registry, a startup
\* list, an optional name and the strict flag.
select(named, startup, name, strict) ==
  LET firstStartup == IF Len(startup) > 0 THEN Some(startup[1]) ELSE None
      matches == {i \in DOMAIN startup : Len(startup[i]) > 0 /\ startup[i][1] = name.val}
  IN  IF ~IsSome(name) THEN firstStartup
      ELSE IF name.val \in DOMAIN named THEN Some(named[name.val])
      ELSE IF matches # {}
           THEN Some(startup[CHOOSE i \in matches : \A k \in matches : i <= k])
      ELSE IF strict THEN None
      ELSE firstStartup

NamedRegistry ==
  IF IsSome(config) /\ IsSome(config.val.servers)
  THEN config.val.servers.val ELSE [n \in {} |-> <<>>]
StartupList == IF IsSome(commands) THEN commands.val ELSE <<>>
StrictName == IsSome(config) /\ config.val.not_found_error
Selected == select(NamedRegistry, StartupList, query, StrictName)

\* Command lines as the data model has them: non-empty argv sequences.
StartupNonEmpty == \A i \in DOMAIN StartupList : Len(StartupList[i]) > 0

\* C6: on every named registry, startup list of (non-empty) command lines,
\* optional name and strict flag, get_command returns what the 5-step
\* selector returns, and the bridge spawns exactly that command.
C6_GetCommandIsSelector ==
  StartupNonEmpty =>
    /\ get_command(commands, config, query) = Selected
    /\ pc = "Running" => (IsSome(Selected) /\ command = Selected.val)
    /\ (pc = "Closed" /\ Selected = None) => outcome = "Err"

C6_Witness ==
  /\ pc = "Running" /\ StartupNonEmpty
  /\ IsSome(query) /\ query.val \in DOMAIN NamedRegistry
  /\ \E i \in DOMAIN StartupList : StartupList[i][1] = query.val
  /\ command = NamedRegistry[query.val]

\* C7: on every registry the startup code can build, selection followed by
\* reading argv[0] of the selected command never aborts.
C7_SelectionTotal == outcome # "Panic"

Refused ==
  /\ pc = "Closed" /\ outcome = "Err" /\ error_logged
  /\ server = "none" /\ kills = 0
  /\ n_client = 0 /\ n_server = 0 /\ ticks = 0
  /\ server_stdin = <<>> /\ client_out = <<>>

\* C8: when server selection fails or the spawn fails, the bridge never
\* enters Running: the connection is Closed with the error logged, there is
\* no child, nothing was read from the socket and nothing was sent.
C8_NoServerNoBridge ==
  /\ (pc # "Starting" /\ get_command(commands, config, query) = None) => Refused
  /\ (pc = "Closed" /\ reason = "none" /\ outcome # "Panic") => Refused

C8_Witness ==
  /\ pc = "Closed" /\ error_logged
  /\ IsSome(query) /\ get_command(commands, config, query) = None

\* The logical name of the server selected for the connection: the registry
\* key it was found under, else argv[0] of the startup command.
LogicalName ==
  IF IsSome(query) /\ query.val \in DOMAIN NamedRegistry THEN query.val
  ELSE IF command # <<>> THEN command[1] ELSE ""

\* C9: databases, users and files are created, and records made, only on a
\* connection whose selected server has the logical name `sql` (and whose
\* config has a sql section).
C9_ProvisionOnlyForSql ==
  (dbms # {} \/ provisioned # {} \/ next_id > 1) =>
    (LogicalName = "sql" /\ IsSome(config) /\ IsSome(config.val.sql))

\* The connectionConfig the forwarded initialize must carry for a record.
ExpectedConnectionConfig(db) ==
  LET sc == config.val.sql.val[db.driver]
      withUser == db.driver \in {"mysql", "postgres"}
      keys == {"driver", "host", "port", "dbName"}
              \cup (IF withUser THEN {"user", "passwd"} ELSE {})
              \cup (IF IsSome(sc.proto) THEN {"proto"} ELSE {})
  IN  [k \in keys |->
         CASE k = "driver" -> db.driver
           [] k = "host" -> sc.host
           [] k = "port" -> sc.port
           [] k = "dbName" -> db.created_database.val
           [] k = "user" -> db.created_user.val
           [] k = "passwd" -> db.created_password.val
           [] k = "proto" -> sc.proto.val]

\* C10: after a successful provisioning the record has its created database
\* set, and the initialize written to the child has initializationOptions
\* equal to { connectionConfig: {driver, host, port, dbName, user and passwd
\* for mysql and postgres only, proto when configured} }, without `init`.
C10_RewriteStep ==
  (provisioned' # provisioned) =>
    /\ IsSome(database')
    /\ IsSome(database'.val.created_database)
    /\ database'.val.created_database.val \in dbms'
    /\ IsSome(database'.val.created_user) <=> database'.val.driver \in {"mysql", "postgres"}
    /\ (server_stdin' # server_stdin) =>
         /\ stdin_last'.msg.kind = "Initialize"
         /\ stdin_last'.msg.opts =
              Some([connectionConfig |-> ExpectedConnectionConfig(database'.val)])

C10_Rewrite == [][C10_RewriteStep]_vars

C10_Witness ==
  /\ pc = "Running" /\ IsSome(database) /\ database.val.driver = "sqlite"
  /\ Len(server_stdin) = 1 /\ stdin_last.msg.kind = "Initialize"
  /\ IsSome(stdin_last.msg.opts)
  /\ DOMAIN stdin_last.msg.opts.val = {"connectionConfig"}
  /\ DOMAIN stdin_last.msg.opts.val.connectionConfig = {"driver", "host", "port", "dbName"}

Range(q) == {q[i] : i \in DOMAIN q}

\* What a provisioning with session id `id` can create.
Resources(id) == {db_name(id), user_name(id), db_path(id)}

\* The provisioning attempts that returned an error.
FailedAttempts == {id \in 1..(next_id - 1) : id \notin provisioned}

\* C11: when provisioning fails at any step, the initialize being handled is
\* not written to the child, the connection ends with the error, and nothing
\* that attempt created is left in the DBMS or on disk once it is Closed.
\* (Stated for connections to the server named `sql`.)
C11_FailedProvisioningCleansUp ==
  LogicalName = "sql" =>
    \A id \in FailedAttempts :
      /\ pc = "Closed" /\ outcome = "Err"
      /\ n_client \notin Range(server_stdin)
      /\ Resources(id) \cap dbms = {}

\* C12: when the child's stdout ends while the connection is Running, the
\* bridge sends a Close frame to the client and leaves the loop (or ends with
\* the send error); once a Close frame was sent, no frame is sent to the
\* client, nothing is written to the child and the loop is not re-entered.
C12_CloseStep ==
  /\ ServerExited =>
        \/ pc' = "Draining" /\ reason' = "eof" /\ client_out' = Append(client_out, Close)
        \/ pc' = "Closed" /\ outcome' = "Err" /\ client_out' = client_out
  /\ (pc = "Running" /\ reason' = "eof") =>
        (pc' = "Draining" /\ client_out' = Append(client_out, Close))
  /\ Close \in Range(client_out) =>
        /\ client_out' = client_out /\ server_stdin' = server_stdin
        /\ pc # "Running" /\ pc' # "Running"

C12_CloseIsLast == [][C12_CloseStep]_vars

C12_Witness ==
  /\ pc = "Closed" /\ reason = "eof" /\ outcome = "Ok"
  /\ Len(client_out) >= 2 /\ client_out[Len(client_out)] = Close
  /\ Len(server_stdin) >= 1

\* C13: a failure of the cleanup call made after the loop is only logged: a
\* connection that left the loop by a break ends as it does when cleanup
\* succeeds, with the result Ok and no connection error reported.
\* (Stated for connections to the server named `sql`.)
C13_CleanupFailureOnlyLogged ==
  (LogicalName = "sql" /\ pc = "Closed" /\ reason \in {"unhealthy", "done", "eof"}) =>
    (outcome = "Ok" /\ ~error_logged)

\* C14: once an initialize has provisioned a database, the connection keeps
\* that record while it is Running: a step that does not itself provision
\* (a later client message of any other kind, a child message, a Tick, a
\* Pong) leaves the record unchanged.
\* (Stated for connections to the server named `sql`.)
C14_RecordKeptStep ==
  (LogicalName = "sql" /\ pc = "Running" /\ IsSome(database) /\ next_id' = next_id) =>
    database' = database

C14_RecordKept == [][C14_RecordKeptStep]_vars

\* C15: for Postgres the record names every user and database of its
\* session that exists in the DBMS, also after a provisioning that failed
\* between the two CREATE statements, so that cleanup can drop it.
C15_PostgresRecordsEachCreate ==
  (IsSome(database) /\ database.val.driver = "postgres") =>
    LET db == database.val
    IN  /\ user_name(db.id) \in dbms => db.created_user = Some(user_name(db.id))
        /\ db_name(db.id) \in dbms => db.created_database = Some(db_name(db.id))

\* C16: when executing initSql fails (and the rollback and the cleanup it
\* triggers go through), init returns the error with everything undone: for
\* mysql and postgres the created database and user are dropped and cleared
\* from the record, for sqlite the file is removed; and for sqlite the file
\* is never recorded on an initSql failure.
C16_InitSqlFailureCleansUp ==
  (IsSome(database) /\ fault[1] = "init_sql" /\ cleanups = <<>>) =>
    LET db == database.val
    IN  /\ db.id \notin provisioned
        /\ db.driver = "sqlite" => db.created_database = None
        /\ fault[2] = "none" =>
             /\ db.created_database = None /\ db.created_user = None
             /\ Resources(db.id) \cap dbms = {}

C16_Witness ==
  /\ IsSome(database) /\ database.val.driver = "postgres"
  /\ fault = <<"init_sql", "none">> /\ cleanups = <<>>
  /\ IsSome(database.val.created_password) /\ database.val.created_user = None
  /\ dbms = {}

\* What a cleanup of the record issues a DROP or a removal for.
Recorded(db) ==
  (IF IsSome(db.created_database) THEN {db.created_database.val} ELSE {})
  \cup (IF IsSome(db.created_user) THEN {db.created_user.val} ELSE {})

\* C17: cleanup is idempotent for every driver: after a successful cleanup
\* the record names nothing, so a second call drops and removes nothing and
\* leaves record and DBMS as they are; a second call never drops anything
\* the record does not still name; and after a cleanup that failed part-way
\* a second call that goes through drops all that was recorded.
C17_CleanupIdempotent ==
  IsSome(database) =>
    \A cf1, cf2 \in CleanupFails :
      LET db == database.val
          c1 == cleanup(db, dbms, cf1)
          c2 == cleanup(c1.db, c1.dbms, cf2)
      IN  /\ c1.ok => (Recorded(c1.db) = {} /\ c2.db = c1.db /\ c2.dbms = c1.dbms)
          /\ (c1.dbms \ c2.dbms) \subseteq Recorded(c1.db)
          /\ (~c1.ok /\ cf2 = "none") =>
                (c2.ok /\ Recorded(c2.db) = {} /\ Recorded(db) \cap c2.dbms = {})

C17_Witness ==
  /\ IsSome(database) /\ database.val.id \in provisioned
  /\ Len(cleanups) = 2
  /\ database.val.created_database = None /\ IsSome(database.val.created_user)
  /\ dbms = {user_name(database.val.id)}

\* C18: a client text frame that does not parse as an LSP message is written
\* to the child's stdin as received, whatever remap and sync are, with no
\* file written, no provisioning and no change of the record, and the
\* connection stays Running (unless the write to the child itself fails).
C18_InvalidStep ==
  /\ RecvInvalid =>
        \/ /\ pc' = "Running"
           /\ server_stdin' = Append(server_stdin, n_client + 1)
           /\ stdin_last'.raw /\ stdin_last'.msg.kind = "Invalid"
        \/ /\ pc' = "Closed" /\ outcome' = "Err" /\ server_stdin' = server_stdin
  /\ (server_stdin' # server_stdin /\ stdin_last'.msg.kind = "Invalid") =>
        /\ stdin_last'.raw /\ pc' = "Running"
        /\ UNCHANGED <<database, dbms, files, next_id, provisioned, fault>>

C18_InvalidForwarded == [][C18_InvalidStep]_vars

C18_Witness ==
  /\ pc = "Running" /\ remap /\ sync
  /\ Len(server_stdin) = 2 /\ stdin_last.raw /\ stdin_last.msg.kind = "Invalid"
  /\ IsSome(database)

\* C19: a failure of the URI remapping, of the write on save or of a send
\* ends the connection at once: the step that fails forwards nothing and
\* closes the connection with the error, a message whose remapping fails is
\* never forwarded, and after the failure no event is processed and nothing
\* is forwarded in either direction.
C19_FatalStep ==
  /\ (reason # "error" /\ reason' = "error") =>
        /\ pc' = "Closed" /\ outcome' = "Err"
        /\ server_stdin' = server_stdin /\ client_out' = client_out
  /\ reason = "error" =>
        /\ pc = "Closed" /\ pc' = "Closed"
        /\ server_stdin' = server_stdin /\ client_out' = client_out
        /\ n_client' = n_client /\ n_server' = n_server /\ ticks' = ticks
  /\ \A m \in CoreMessages :
        (remap /\ ~remap_relative_uri(m.uri, TRUE).ok /\ RecvMessageFrom({m}, CoreFails)) =>
          (reason' = "error" /\ pc' = "Closed" /\ server_stdin' = server_stdin)
  /\ \A t \in CoreServerTexts :
        (remap /\ t.parses /\ ~remap_relative_uri(t.uri, FALSE).ok /\ ServerTextFrom({t})) =>
          (reason' = "error" /\ pc' = "Closed" /\ client_out' = client_out)

C19_FailureIsFatal == [][C19_FatalStep]_vars

C19_Witness ==
  /\ pc = "Closed" /\ reason = "error" /\ outcome = "Err"
  /\ remap /\ ~sync /\ n_client = 2 /\ n_server = 1
  /\ Len(server_stdin) = 1 /\ stdin_last.raw /\ Len(client_out) = 1

\* The path component of a uri.
uri_path(uri) ==
  CASE uri = "file:///proj/a" -> "/proj/a"
    [] uri = "file://host/a" -> "/a"
    [] uri = "file:///" -> "/"
    [] OTHER -> ""

\* The uri of a client message as it is after the remapping step.
Remapped(m) ==
  IF remap THEN remap_relative_uri(m.uri, TRUE) ELSE [ok |-> TRUE, uri |-> m.uri]

\* What every step that handles the client message m shows: one more socket
\* item taken, and the kind of m on what was written to the child, if anything.
HandledBy(m) ==
  /\ n_client' = n_client + 1
  /\ server_stdin' # server_stdin => stdin_last'.msg.kind = m.kind
  /\ next_id' # next_id => m.kind = "Initialize"

\* C20: handling a client LSP message writes a file if and only if sync is
\* enabled and the message, as it is after remapping, is a didSave carrying
\* text whose uri has scheme file; the file written is the path of that uri
\* and the message forwarded to the child carries the same uri; in every
\* other case no file is written.  (For every message m: a step either
\* shows all of this for m, or is not a step that handles m.)
C20_WriteStep ==
  \A m \in ClientMessages :
    LET r == Remapped(m)
        triggers == sync /\ r.ok /\ m.kind = "DidSave" /\ m.text
                    /\ scheme(r.uri) = "file"
    IN  HandledBy(m) =>
          \/ /\ (triggers /\ pc' = "Running") => uri_path(r.uri) \in files'
             /\ ~triggers => files' = files
             /\ files' \subseteq files \cup {uri_path(r.uri)}
             /\ server_stdin' # server_stdin => stdin_last'.msg.uri = r.uri
          \/ ~RecvMessageFrom({m}, {fault'})

C20_WriteIffFileUri == [][C20_WriteStep]_vars

\* C20, for local paths: a file is written if and only if sync is enabled
\* and the message, as it is after remapping, is a didSave carrying text
\* whose uri has scheme file and converts to a local file path that has a
\* parent directory; the file written is that path, the forwarded message
\* carries the same uri, and in every other case no file is written.
C20_WriteLocalStep ==
  \A m \in ClientMessages :
    LET r == Remapped(m)
        path == to_file_path(r.uri)
        triggers == sync /\ r.ok /\ m.kind = "DidSave" /\ m.text
                    /\ scheme(r.uri) = "file"
                    /\ IsSome(path) /\ IsSome(parent(path.val))
    IN  HandledBy(m) =>
          \/ /\ (triggers /\ pc' = "Running") => path.val \in files'
             /\ ~triggers => files' = files
             /\ triggers => files' \subseteq files \cup {path.val}
             /\ server_stdin' # server_stdin => stdin_last'.msg.uri = r.uri
          \/ ~RecvMessageFrom({m}, {fault'})

C20_WriteIffLocalFileUri == [][C20_WriteLocalStep]_vars

C20_Witness ==
  /\ pc = "Running" /\ remap /\ sync
  /\ files = {"/proj/a"}
  /\ Len(server_stdin) = 1
  /\ stdin_last.msg.kind = "DidSave" /\ stdin_last.msg.uri = "file:///proj/a"

\* C21: a codec error on the child's stdout is logged and nothing else: the
\* connection stays Running, the liveness bit and the provisioned record are
\* unchanged, nothing is sent, and a child message decoded after it is
\* forwarded to the client like any other.
C21_CodecErrorStep ==
  /\ ServerCodecError =>
        /\ "codec_error" \in logged' /\ pc' = "Running"
        /\ UNCHANGED <<is_alive, database, dbms, client_out, server_stdin>>
  /\ \A t \in CoreServerTexts :
        ("codec_error" \in logged /\ ServerTextFrom({t}) /\ pc' = "Running") =>
          client_out' = Append(client_out, Text(n_server + 1))

C21_CodecErrorNotFatal == [][C21_CodecErrorStep]_vars

C21_Witness ==
  /\ pc = "Running" /\ "codec_error" \in logged
  /\ n_server = 2 /\ client_out = <<Text(2)>>
  /\ IsSome(database)

\* C22: a codec error on the child's stdout is connection-fatal: once the
\* reader has yielded one, the bridge is no longer Running.
C22_CodecErrorFatal ==
  "codec_error" \in logged => pc \in {"Draining", "Closed"}

\* C22, for the end of the child's stdout: a codec error leaves the bridge
\* Running; on the child side the loop is left only when the child's stdout
\* ends (or a remap or send fails), and once the loop is left nothing more
\* is forwarded to the client.
C22_ChildSideStep ==
  /\ ServerCodecError => (pc' = "Running" /\ reason' = reason)
  /\ (pc = "Running" /\ pc' # "Running" /\ n_server' # n_server) =>
        (pc' = "Closed" /\ reason' = "error" /\ client_out' = client_out)
  /\ (pc = "Running" /\ pc' = "Draining" /\ reason' \notin {"unhealthy", "done"}) =>
        (ServerExited /\ reason' = "eof")
  /\ pc \in {"Draining", "Closed"} => client_out' = client_out

C22_OnlyEofDrains == [][C22_ChildSideStep]_vars

C22_Witness ==
  /\ pc = "Closed" /\ reason = "eof" /\ "codec_error" \in logged
  /\ n_server = 2 /\ client_out = <<Text(1), Close>>

\* C23: a Close frame from the peer is logged and nothing else: the bridge
\* stays Running and goes on taking child messages, Ticks and Pongs; the
\* loop is left for the peer only at Done, and after Done no socket item is
\* taken and the loop is not entered again.
C23_CloseStep ==
  /\ RecvClose =>
        /\ "close" \in logged' /\ pc' = "Running"
        /\ UNCHANGED <<is_alive, database, dbms, client_out, server_stdin>>
  /\ ("close" \in logged /\ pc = "Running") =>
        /\ ENABLED RecvPong
        /\ ticks < MaxTicks => ENABLED Tick
        /\ n_server < MaxServerFrames => ENABLED ServerText
  /\ (pc = "Running" /\ reason' = "done") => (RecvDone /\ pc' = "Draining")
  /\ reason = "done" => (n_client' = n_client /\ pc' # "Running")

C23_CloseThenDone == [][C23_CloseStep]_vars

C23_Witness ==
  /\ pc = "Closed" /\ reason = "done" /\ outcome = "Ok"
  /\ logged = {"close"} /\ n_client = 1
  /\ n_server = 1 /\ ticks = 1 /\ Len(client_out) = 2

\* C24: a read error of the socket is logged and nothing else: nothing is
\* forwarded for it, the liveness bit and the record are unchanged and the
\* bridge stays Running; afterwards the loop is left only by Done, by an
\* unhealthy Tick, by the end of the child's stdout or by a fatal error.
C24_ReadErrorStep ==
  /\ RecvError =>
        /\ "ws_error" \in logged' /\ pc' = "Running"
        /\ UNCHANGED <<is_alive, database, dbms, client_out, server_stdin>>
  /\ ("ws_error" \in logged /\ pc = "Running" /\ pc' # "Running") =>
        \/ RecvDone /\ reason' = "done"
        \/ Tick /\ reason' = "unhealthy"
        \/ ServerExited /\ reason' = "eof"
        \/ reason' = "error" /\ pc' = "Closed" /\ outcome' = "Err"

C24_ReadErrorNotFatal == [][C24_ReadErrorStep]_vars

C24_Witness ==
  /\ pc = "Running" /\ logged = {"ws_error"}
  /\ n_client = 2 /\ server_stdin = <<2>> /\ ~is_alive

\* C25: every message decoded from the child's stdout while Running gives
\* exactly one text frame to the client, or ends the connection when its
\* remapping or the send fails: with remap disabled, or with a body that does
\* not parse, the frame carries the child's text unchanged; a parseable body
\* with remap enabled is remapped and serialized again.  (For every text t:
\* a step either shows this for t, or is not a step that handles t.)
C25_ChildTextStep ==
  \A t \in ServerTexts :
    LET rm == remap /\ t.parses
        r == IF rm THEN remap_relative_uri(t.uri, FALSE) ELSE [ok |-> TRUE, uri |-> t.uri]
    IN  n_server' = n_server + 1 =>
          \/ /\ r.ok /\ pc' = "Running"
             /\ client_out' = Append(client_out, Text(n_server + 1))
             /\ out_last'.reserialized = rm /\ out_last'.parses = t.parses
             /\ out_last'.uri = r.uri
          \/ pc' = "Closed" /\ outcome' = "Err" /\ client_out' = client_out
          \/ ~ServerTextFrom({t})

C25_ChildTextForwarded == [][C25_ChildTextStep]_vars

C25_Witness ==
  /\ pc = "Running" /\ remap
  /\ n_server = 2 /\ client_out = <<Text(1), Text(2)>>
  /\ out_last.reserialized /\ out_last.uri = "source://a"

\* C26: when a connection on which more than one initialize provisioned
\* ends through the cleanup after the loop, and that cleanup succeeds,
\* nothing that any of its provisionings created is left in the DBMS or on
\* disk.  (Stated for connections to the server named `sql`.)
C26_EveryProvisioningCleaned ==
  (LogicalName = "sql" /\ pc = "Closed" /\ outcome = "Ok"
     /\ Cardinality(provisioned) >= 2) =>
    \A id \in provisioned : Resources(id) \cap dbms = {}

\* C27: a client that answers every PING with a Pong before the next timer
\* period elapses is never terminated as unhealthy.
C27_PromptClientNeverUnhealthy == reason # "unhealthy"

\* C28: under fair scheduling of the bridge and the timer, a connection
\* whose client has stopped answering eventually reaches Closed, whatever
\* the child does.
C28_SilentClientEventuallyClosed == <>(pc = "Closed")

\* C29: the merged socket-plus-timer stream never yields end-of-stream to
\* the loop: in every reachable state it has a next item, the loop has left
\* Running by the time Done was taken from the socket's side, and the branch
\* for None cannot be taken.
C29_MergedStreamNeverEnds ==
  /\ IsSome(client_recv_next)
  /\ pc = "Running" => IsSome(chain_next(reason = "done"))
  /\ ~ENABLED RecvNone

\* Done was taken after Ticks: the socket's side has ended, the timer's has not.
C29_Witness ==
  /\ pc \in {"Draining", "Closed"} /\ reason = "done" /\ ticks >= 1
  /\ chain_next(reason = "done") = None
  /\ client_recv_next = Some("Tick")

====
